---------------------------- MODULE Spec2Model ----------------------------
(***************************************************************************)
(* libsip: the header grammar (src/src/headers/parse.rs), the Headers      *)
(* container (src/src/headers/mod.rs) and the MessageHelper accessors      *)
(* (src/src/client/messaging.rs).                                          *)
(*                                                                         *)
(* A byte slice is a sequence of one-character strings.  The grammars are  *)
(* nom 5 macro parsers over &[u8]: the macro forms of tag!, char!,         *)
(* take_while! and take_until! are the streaming ones, so running out of   *)
(* input is the third outcome Incomplete, which opt!, alt! and             *)
(* separated_list! hand on unchanged and `_ => break` in                   *)
(* parse_named_field_params swallows.  The Needed size carried by          *)
(* Incomplete and the ErrorKind carried by Error are left out.             *)
(***************************************************************************)
EXTENDS Integers, Sequences, FiniteSets, TLC

VARIABLES
    pc,        \* "idle" before a call of the grammar, "done" after it
    fn,        \* the function that was called
    input,     \* the byte slice it was called on
    out,       \* its IResult
    hdr,       \* the Header value that was serialized first (round trip), or <<>>
    headers,   \* Headers.0, the stored Vec<Header>
    calls,     \* history: the headers handed to each push / extend, in call order
    op,        \* the last Headers / MessageHelper method called
    ret,       \* what that method returned
    writer,    \* the MessageWriter, NoWriter before MessageWriter::new
    sent       \* history: the result of each write_message call, in call order

grammarVars == <<pc, fn, input, out, hdr>>
containerVars == <<headers, calls, op, ret>>
writerVars == <<writer, sent>>
vars == <<pc, fn, input, out, hdr, headers, calls, op, ret, writer, sent>>

(***************************************************************************)
(* Bounds of the model.                                                    *)
(***************************************************************************)
MaxWs == 1        \* whitespace bytes after the colon of a generated line
MaxItems == 2     \* sub-items of a generated array payload
MaxParams == 2    \* ";key=value" groups of a generated parameter string
MaxCalls == 3     \* push / extend calls on one Headers container
MaxWrites == 3    \* write_message calls on one MessageWriter

(***************************************************************************)
(* Byte slices and character classes.                                      *)
(***************************************************************************)
Min(a, b) == IF a <= b THEN a ELSE b
Take(s, n) == SubSeq(s, 1, n)
Drop(s, n) == SubSeq(s, n + 1, Len(s))
CRLF == <<"\r", "\n">>
DQUOTE == "\""

DigitChars == <<"0", "1", "2", "3", "4", "5", "6", "7", "8", "9">>
UpperChars == <<"A", "B", "C", "D", "E", "F", "G", "H", "I", "J", "K", "L", "M", "N", "O", "P", "Q", "R", "S", "T", "U", "V", "W", "X", "Y", "Z">>
LowerChars == <<"a", "b", "c", "d", "e", "f", "g", "h", "i", "j", "k", "l", "m", "n", "o", "p", "q", "r", "s", "t", "u", "v", "w", "x", "y", "z">>
Range(s) == {s[k] : k \in DOMAIN s}

is_digit(c) == c \in Range(DigitChars)
is_alphabetic(c) == c \in Range(UpperChars) \cup Range(LowerChars)
is_alphanumeric(c) == is_alphabetic(c) \/ is_digit(c)
is_space(c) == c = " " \/ c = "\t"

(***************************************************************************)
(* IResult and Option.                                                     *)
(***************************************************************************)
Ok(rest, val) == [kind |-> "Ok", rest |-> rest, val |-> val]
Error == [kind |-> "Error"]
Incomplete == [kind |-> "Incomplete"]
IsOk(r) == r.kind = "Ok"
None == <<>>
Some(x) == <<x>>

\* let x = e; F(x)
Bind(e, F(_)) == CHOOSE y \in {F(x) : x \in {e}} : TRUE

\* one `>>` step of do_parse!: the rest of the sequence runs on an Ok, anything else
\* is the outcome of the whole
Then(r, F(_)) == CHOOSE y \in {IF x.kind = "Ok" THEN F(x) ELSE x : x \in {r}} : TRUE

\* map_res!: a failed conversion is an Error
MapRes(r, Conv(_)) ==
    Then(r, LAMBDA d : Bind(Conv(d.val), LAMBDA v : IF v.ok THEN Ok(d.rest, v.val) ELSE Error))

(***************************************************************************)
(* The nom combinators the grammar is written in.                          *)
(***************************************************************************)
\* tag!(t): compare the common prefix; a short input that agrees so far is Incomplete
tag(t, i) ==
    IF \E k \in 1..Min(Len(i), Len(t)) : i[k] # t[k] THEN Error
    ELSE IF Len(i) >= Len(t) THEN Ok(Drop(i, Len(t)), t)
    ELSE Incomplete

\* char!(c)
char(c, i) ==
    IF i = <<>> THEN Incomplete
    ELSE IF i[1] = c THEN Ok(Tail(i), c)
    ELSE Error

\* the first index of i whose byte satisfies P, or 0
Position(P(_), i) ==
    Bind({k \in 1..Len(i) : P(i[k])}, LAMBDA at :
        IF at = {} THEN 0 ELSE CHOOSE m \in at : \A n \in at : m <= n)

\* split i before index k; no such index is Incomplete
SplitAt(k, i) == IF k = 0 THEN Incomplete ELSE Ok(Drop(i, k - 1), Take(i, k - 1))

\* take_while!(P): split at the first byte that fails P
take_while(P(_), i) == Bind(Position(LAMBDA c : ~P(c), i), LAMBDA k : SplitAt(k, i))

\* take_until!("\r")
take_until_cr(i) == Bind(Position(LAMBDA c : c = "\r", i), LAMBDA k : SplitAt(k, i))

\* opt!(p) applied to p's result r on input i: only Error becomes None
opt(r, i) ==
    Bind(r, LAMBDA x :
        IF x.kind = "Error" THEN Ok(i, None)
        ELSE IF x.kind = "Ok" THEN Ok(x.rest, Some(x.val))
        ELSE x)

\* opt!(take_while!(is_space))
opt_space(i) == opt(take_while(is_space, i), i)

(***************************************************************************)
(* Conversions of crate::parse and the collaborator grammars (crate::core, *)
(* crate::uri), whose files are not part of the sources at hand.           *)
(***************************************************************************)
\* a u32 is kept as two 16-bit limbs: the model checker's integers are signed 32-bit
U32(n) == [hi |-> n \div 65536, lo |-> n % 65536]
DigitVal(c) == CHOOSE n \in 0..9 : DigitChars[n + 1] = c

RECURSIVE u32_from_digits(_, _)
\* str::parse::<u32>: checked_mul(10) then checked_add(digit) for each digit
u32_from_digits(s, acc) ==
    IF s = <<>> THEN [ok |-> TRUE, val |-> acc]
    ELSE Bind(acc.lo * 10 + DigitVal(s[1]), LAMBDA lo2 :
         Bind(acc.hi * 10 + lo2 \div 65536, LAMBDA hi2 :
             IF hi2 >= 65536 THEN [ok |-> FALSE]
             ELSE Bind([hi |-> hi2, lo |-> lo2 % 65536], LAMBDA next :
                  Bind(Tail(s), LAMBDA rest : u32_from_digits(rest, next)))))

parse_u32(s) ==
    IF s = <<>> THEN [ok |-> FALSE] ELSE u32_from_digits(s, U32(0))

\* the digits of s without its leading zeros (one digit is kept)
StripLeadingZeros(s) ==
    Bind(Position(LAMBDA c : c # "0", s), LAMBDA k :
        IF k = 0 THEN <<s[Len(s)]>> ELSE Drop(s, k - 1))

\* the digits of s without its trailing zeros
StripTrailingZeros(s) ==
    Bind({k \in 1..Len(s) : s[k] # "0"}, LAMBDA nz :
        IF nz = {} THEN <<>> ELSE Take(s, CHOOSE m \in nz : \A n \in nz : n <= m))

\* str::parse::<f32> on digits and dots: digits, at most one dot, at least one digit.
\* The value is kept as its decimal expansion (integer part, fraction part).
parse_f32(s) ==
    Bind({k \in 1..Len(s) : s[k] = "."}, LAMBDA dots :
        IF Cardinality(dots) > 1 \/ Len(s) = Cardinality(dots) THEN [ok |-> FALSE]
        ELSE Bind(IF dots = {} THEN Len(s) + 1 ELSE CHOOSE k \in dots : TRUE, LAMBDA d :
                 [ok |-> TRUE,
                  val |-> [ip |-> IF d = 1 THEN <<"0">> ELSE StripLeadingZeros(Take(s, d - 1)),
                           fp |-> StripTrailingZeros(Drop(s, d))]]))

\* String::from_utf8 on the ASCII slices the grammar hands over
slice_to_string(s) == [ok |-> TRUE, val |-> s]

\* the method vocabulary: the tokens the sources at hand name
MethodTokens ==
    << [token |-> <<"I", "N", "V", "I", "T", "E">>, method |-> "Invite"],
       [token |-> <<"O", "P", "T", "I", "O", "N", "S">>, method |-> "Options"],
       [token |-> <<"R", "E", "G", "I", "S", "T", "E", "R">>, method |-> "Register"],
       [token |-> <<"M", "E", "S", "S", "A", "G", "E">>, method |-> "Message"] >>

RECURSIVE parse_method_from(_, _)
parse_method_from(k, i) ==
    IF k > Len(MethodTokens) THEN Error
    ELSE Bind(tag(MethodTokens[k].token, i), LAMBDA r :
             IF r.kind = "Ok" THEN Ok(r.rest, MethodTokens[k].method)
             ELSE IF r.kind = "Error" THEN parse_method_from(k + 1, i)
             ELSE r)

\* parse_method: an alternation of one tag per method token
parse_method(i) == parse_method_from(1, i)

\* parse_uri: "sip:" and a non-empty run of user/host bytes; the value keeps the bytes
is_uri_byte(c) == is_alphanumeric(c) \/ c = "@" \/ c = "."
parse_uri(i) ==
    Then(tag(<<"s", "i", "p", ":">>, i), LAMBDA s :
    Then(take_while(is_uri_byte, s.rest), LAMBDA b :
    IF b.val = <<>> THEN Error ELSE Ok(b.rest, [schema |-> "Sip", addr |-> b.val])))

(***************************************************************************)
(* The header value.                                                       *)
(***************************************************************************)
Hdr(variant, payload) == [variant |-> variant, payload |-> payload]

\* #[derive(PartialEq)] for Header: the variant first, then the payload
HeaderEq(a, b) == a.variant = b.variant /\ a.payload = b.payload

(***************************************************************************)
(* The per-shape grammars (the macros of parse.rs).                        *)
(***************************************************************************)
\* tag!($tag) >> opt!(take_while!(is_space)) >> char!(':') >> opt!(take_while!(is_space))
tag_colon(t, i) ==
    Then(tag(t, i), LAMBDA a :
    Then(opt_space(a.rest), LAMBDA b :
    Then(char(":", b.rest), LAMBDA c :
    opt_space(c.rest))))

\* map_res!(take_while!(is_digit), parse_u32)
u32_value(i) == MapRes(take_while(is_digit, i), parse_u32)

\* a failed conversion defaulted: parse_u32(..).unwrap_or(0) in place of map_res!
impl_u32_parser_default(t, variant, i) ==
    Then(tag_colon(t, i), LAMBDA p :
    Then(take_while(is_digit, p.rest), LAMBDA d :
    Then(tag(CRLF, d.rest), LAMBDA e :
    Bind(parse_u32(d.val), LAMBDA v :
    Ok(e.rest, Hdr(variant, IF v.ok THEN v.val ELSE U32(0)))))))

impl_u32_parser(t, variant, i) ==
    Then(tag_colon(t, i), LAMBDA p :
    Then(u32_value(p.rest), LAMBDA value :
    Then(tag(CRLF, value.rest), LAMBDA e :
    Ok(e.rest, Hdr(variant, value.val)))))

is_digit_or_dot(c) == is_digit(c) \/ c = "."

impl_f32_parser(t, variant, i) ==
    Then(tag_colon(t, i), LAMBDA p :
    Then(MapRes(take_while(is_digit_or_dot, p.rest), parse_f32), LAMBDA value :
    Ok(value.rest, Hdr(variant, value.val))))

impl_string_parser(t, variant, i) ==
    Then(tag_colon(t, i), LAMBDA p :
    Then(MapRes(take_until_cr(p.rest), slice_to_string), LAMBDA value :
    Then(tag(CRLF, value.rest), LAMBDA e :
    Ok(e.rest, Hdr(variant, value.val)))))

\* named!(parse_string<String>, map_res!(take_while!(is_alphabetic), slice_to_string))
parse_string(i) == MapRes(take_while(is_alphabetic, i), slice_to_string)

\* the $func of an array grammar
array_item(func, i) ==
    IF func = "parse_method" THEN parse_method(i) ELSE parse_string(i)

\* pair!(char!(','), opt!(char!(' ')))
list_sep(i) == Then(char(",", i), LAMBDA a : opt(char(" ", a.rest), a.rest))

RECURSIVE separated_list_loop(_, _, _)
\* the loop of nom's separated_list: separator, then item; an Error of either ends
\* the list before the separator
separated_list_loop(func, i, res) ==
    Bind(list_sep(i), LAMBDA s :
        IF s.kind = "Error" THEN Ok(i, res)
        ELSE IF s.kind # "Ok" THEN s
        ELSE IF s.rest = i THEN Error
        ELSE Bind(array_item(func, s.rest), LAMBDA f :
                 IF f.kind = "Error" THEN Ok(i, res)
                 ELSE IF f.kind # "Ok" THEN f
                 ELSE IF f.rest = i THEN Error
                 ELSE Bind(Append(res, f.val), LAMBDA res2 :
                          separated_list_loop(func, f.rest, res2))))

\* separated_list!(sep, $func): an Error of the first item is the empty list; an item
\* that consumed nothing is an Error
separated_list(func, i) ==
    Bind(array_item(func, i), LAMBDA f :
        IF f.kind = "Error" THEN Ok(i, <<>>)
        ELSE IF f.kind # "Ok" THEN f
        ELSE IF f.rest = i THEN Error
        ELSE separated_list_loop(func, f.rest, <<f.val>>))

impl_array_parser(t, variant, func, i) ==
    Then(tag_colon(t, i), LAMBDA p :
    Then(separated_list(func, p.rest), LAMBDA data :
    Then(tag(CRLF, data.rest), LAMBDA e :
    Ok(e.rest, Hdr(variant, data.val)))))

parse_named_field_param(i) ==
    Then(char(";", i), LAMBDA a :
    Then(MapRes(take_while(is_alphabetic, a.rest), slice_to_string), LAMBDA key :
    Then(char("=", key.rest), LAMBDA e :
    Then(MapRes(take_while(is_alphanumeric, e.rest), slice_to_string), LAMBDA value :
    Ok(value.rest, <<key.val, value.val>>)))))

\* HashMap::insert: the new value replaces the one the key had
MapInsert(map, key, value) ==
    [k \in DOMAIN map \cup {key} |-> IF k = key THEN value ELSE map[k]]
EmptyMap == <<>>

RECURSIVE params_loop_keep_first(_, _)
\* the first occurrence of a key kept: map.entry(key).or_insert(value)
params_loop_keep_first(i, map) ==
    Bind(parse_named_field_param(i), LAMBDA r :
        IF r.kind = "Ok"
        THEN Bind(IF r.val[1] \in DOMAIN map THEN map ELSE MapInsert(map, r.val[1], r.val[2]),
                  LAMBDA map2 : params_loop_keep_first(r.rest, map2))
        ELSE Ok(i, map))

RECURSIVE params_loop(_, _)
\* the loop of parse_named_field_params: anything but Ok breaks
params_loop(i, map) ==
    Bind(parse_named_field_param(i), LAMBDA r :
        IF r.kind = "Ok"
        THEN Bind(MapInsert(map, r.val[1], r.val[2]), LAMBDA map2 : params_loop(r.rest, map2))
        ELSE Ok(i, map))

parse_named_field_params(i) == params_loop(i, EmptyMap)

is_alphabetic_or_space(c) == is_alphabetic(c) \/ is_space(c)

parse_quoted_name(i) ==
    Then(char(DQUOTE, i), LAMBDA a :
    Then(MapRes(take_while(is_alphabetic_or_space, a.rest), slice_to_string), LAMBDA o :
    Then(char(DQUOTE, o.rest), LAMBDA b :
    Ok(b.rest, o.val))))

\* alt!(parse_quoted_name | map_res!(take_while!(is_alphabetic), slice_to_string))
parse_name(i) ==
    Bind(parse_quoted_name(i), LAMBDA q : IF q.kind = "Error" THEN parse_string(i) ELSE q)

parse_named_field_value(i) ==
    Then(opt(parse_name(i), i), LAMBDA name :
    Then(opt_space(name.rest), LAMBDA w :
    Then(char("<", w.rest), LAMBDA a :
    Then(parse_uri(a.rest), LAMBDA value :
    Then(char(">", value.rest), LAMBDA b :
    Ok(b.rest, <<name.val, value.val>>))))))

impl_named_parser(t, variant, i) ==
    Then(tag_colon(t, i), LAMBDA p :
    Then(parse_named_field_value(p.rest), LAMBDA o :
    Then(parse_named_field_params(o.rest), LAMBDA params :
    Then(tag(CRLF, params.rest), LAMBDA e :
    Ok(e.rest, Hdr(variant, [name |-> o.val[1], uri |-> o.val[2], params |-> params.val]))))))

\* alt!(map!(tag!("application/sdp"), |_| ContentType::Sdp))
parse_content_type(i) == Then(tag(<<"a", "p", "p", "l", "i", "c", "a", "t", "i", "o", "n", "/", "s", "d", "p">>, i), LAMBDA r : Ok(r.rest, "Sdp"))

\* alt!(map!(tag!("en"), |_| Language::English))
parse_language(i) == Then(tag(<<"e", "n">>, i), LAMBDA r : Ok(r.rest, "English"))

impl_type_parser(t, variant, i) ==
    Then(tag_colon(t, i), LAMBDA p :
    Then(parse_content_type(p.rest), LAMBDA ty :
    Ok(ty.rest, Hdr(variant, ty.val))))

impl_lang_parser(t, variant, i) ==
    Then(tag_colon(t, i), LAMBDA p :
    Then(parse_language(p.rest), LAMBDA ty :
    Ok(ty.rest, Hdr(variant, ty.val))))

parse_cseq_header(i) ==
    Then(tag_colon(<<"C", "S", "e", "q">>, i), LAMBDA p :
    Then(u32_value(p.rest), LAMBDA value :
    Then(opt_space(value.rest), LAMBDA w :
    Then(parse_method(w.rest), LAMBDA method :
    Then(tag(CRLF, method.rest), LAMBDA e :
    Ok(e.rest, Hdr("CSeq", [seq |-> value.val, method |-> method.val])))))))

(***************************************************************************)
(* The registrations of parse.rs, lines 161-203: the function each macro    *)
(* invocation defines, with its tag and the variant it builds.             *)
(***************************************************************************)
Registrations ==
    << [name |-> "parse_expires_header", macro |-> "u32", tag |-> <<"E", "x", "p", "i", "r", "e", "s">>, variant |-> "Expires", func |-> ""],
       [name |-> "parse_min_expires_header", macro |-> "u32", tag |-> <<"M", "i", "n", "-", "E", "x", "p", "i", "r", "e", "s">>, variant |-> "MinExpires", func |-> ""],
       [name |-> "parse_content_length_header", macro |-> "u32", tag |-> <<"C", "o", "n", "t", "e", "n", "t", "-", "L", "e", "n", "g", "t", "h">>, variant |-> "ContentLength", func |-> ""],
       [name |-> "parse_max_forwards_header", macro |-> "u32", tag |-> <<"M", "a", "x", "-", "F", "o", "r", "w", "a", "r", "d", "s">>, variant |-> "MaxForwards", func |-> ""],
       [name |-> "parse_mime_version_header", macro |-> "f32", tag |-> <<"M", "I", "M", "E", "-", "V", "e", "r", "s", "i", "o", "n">>, variant |-> "MimeVersion", func |-> ""],
       [name |-> "parse_useragent_header", macro |-> "string", tag |-> <<"U", "s", "e", "r", "-", "A", "g", "e", "n", "t">>, variant |-> "UserAgent", func |-> ""],
       [name |-> "parse_callid_header", macro |-> "string", tag |-> <<"C", "a", "l", "l", "-", "I", "D">>, variant |-> "CallId", func |-> ""],
       [name |-> "parse_alert_info_header", macro |-> "string", tag |-> <<"A", "l", "e", "r", "t", "-", "I", "n", "f", "o">>, variant |-> "AlertInfo", func |-> ""],
       [name |-> "parse_error_info_header", macro |-> "string", tag |-> <<"E", "r", "r", "o", "r", "-", "I", "n", "f", "o">>, variant |-> "ErrorInfo", func |-> ""],
       [name |-> "parse_authentication_info_header", macro |-> "string", tag |-> <<"A", "u", "t", "h", "e", "n", "t", "i", "c", "a", "t", "i", "o", "n", "-", "I", "n", "f", "o">>, variant |-> "AuthenticationInfo", func |-> ""],
       [name |-> "parse_authorization_header", macro |-> "string", tag |-> <<"A", "u", "t", "h", "o", "r", "i", "z", "a", "t", "i", "o", "n">>, variant |-> "Authorization", func |-> ""],
       [name |-> "parse_call_info_header", macro |-> "string", tag |-> <<"C", "a", "l", "l", "-", "I", "n", "f", "o">>, variant |-> "CallInfo", func |-> ""],
       [name |-> "parse_in_reply_to_header", macro |-> "string", tag |-> <<"I", "n", "-", "R", "e", "p", "l", "y", "-", "T", "o">>, variant |-> "InReplyTo", func |-> ""],
       [name |-> "parse_content_disposition_header", macro |-> "string", tag |-> <<"C", "o", "n", "t", "e", "n", "t", "-", "D", "i", "s", "p", "o", "s", "i", "t", "i", "o", "n">>, variant |-> "ContentDisposition", func |-> ""],
       [name |-> "parse_date_header", macro |-> "string", tag |-> <<"D", "a", "t", "e">>, variant |-> "Date", func |-> ""],
       [name |-> "parse_organization_header", macro |-> "string", tag |-> <<"O", "r", "g", "a", "n", "i", "z", "a", "t", "i", "o", "n">>, variant |-> "Organization", func |-> ""],
       [name |-> "parse_proxy_authenticate_header", macro |-> "string", tag |-> <<"P", "r", "o", "x", "y", "-", "A", "u", "t", "h", "e", "n", "t", "i", "c", "a", "t", "e">>, variant |-> "ProxyAuthenticate", func |-> ""],
       [name |-> "parse_proxy_authorization_header", macro |-> "string", tag |-> <<"P", "r", "o", "x", "y", "-", "A", "u", "t", "h", "o", "r", "i", "z", "a", "t", "i", "o", "n">>, variant |-> "ProxyAuthorization", func |-> ""],
       [name |-> "parse_proxy_require_header", macro |-> "string", tag |-> <<"P", "r", "o", "x", "y", "-", "R", "e", "q", "u", "i", "r", "e">>, variant |-> "ProxyRequire", func |-> ""],
       [name |-> "parse_require_header", macro |-> "string", tag |-> <<"R", "e", "q", "u", "i", "r", "e">>, variant |-> "Require", func |-> ""],
       [name |-> "parse_retry_after_header", macro |-> "string", tag |-> <<"R", "e", "t", "r", "y", "-", "A", "f", "t", "e", "r">>, variant |-> "RetryAfter", func |-> ""],
       [name |-> "parse_route_header", macro |-> "string", tag |-> <<"R", "o", "u", "t", "e">>, variant |-> "Route", func |-> ""],
       [name |-> "parse_subject_header", macro |-> "string", tag |-> <<"S", "u", "b", "j", "e", "c", "t">>, variant |-> "Subject", func |-> ""],
       [name |-> "parse_record_route_header", macro |-> "string", tag |-> <<"R", "e", "c", "o", "r", "d", "-", "R", "o", "u", "t", "e">>, variant |-> "RecordRoute", func |-> ""],
       [name |-> "parse_server_header", macro |-> "string", tag |-> <<"S", "e", "r", "v", "e", "r">>, variant |-> "Server", func |-> ""],
       [name |-> "parse_unsupported_header", macro |-> "string", tag |-> <<"U", "n", "s", "u", "p", "p", "o", "r", "t", "e", "d">>, variant |-> "Unsupported", func |-> ""],
       [name |-> "parse_warning_header", macro |-> "string", tag |-> <<"W", "a", "r", "n", "i", "n", "g">>, variant |-> "Warning", func |-> ""],
       [name |-> "parse_via_header", macro |-> "string", tag |-> <<"V", "i", "a">>, variant |-> "Via", func |-> ""],
       [name |-> "parse_priority_header", macro |-> "string", tag |-> <<"P", "r", "i", "o", "r", "i", "t", "y">>, variant |-> "Priority", func |-> ""],
       [name |-> "parse_www_authenticate_header", macro |-> "string", tag |-> <<"W", "W", "W", "-", "A", "u", "t", "h", "e", "n", "t", "i", "c", "a", "t", "e">>, variant |-> "WwwAuthenticate", func |-> ""],
       [name |-> "parse_timestamp_header", macro |-> "u32", tag |-> <<"T", "i", "m", "e", "s", "t", "a", "m", "p">>, variant |-> "Timestamp", func |-> ""],
       [name |-> "parse_accept_header", macro |-> "array", tag |-> <<"A", "c", "c", "e", "p", "t">>, variant |-> "Accept", func |-> "parse_method"],
       [name |-> "parse_allow_header", macro |-> "array", tag |-> <<"A", "l", "l", "o", "w">>, variant |-> "Allow", func |-> "parse_method"],
       [name |-> "parse_supported_header", macro |-> "array", tag |-> <<"S", "u", "p", "p", "o", "r", "t", "e", "d">>, variant |-> "Supported", func |-> "parse_string"],
       [name |-> "parse_to_header", macro |-> "named", tag |-> <<"T", "o">>, variant |-> "To", func |-> ""],
       [name |-> "parse_from_header", macro |-> "named", tag |-> <<"F", "r", "o", "m">>, variant |-> "From", func |-> ""],
       [name |-> "parse_contact_header", macro |-> "named", tag |-> <<"C", "o", "n", "t", "a", "c", "t">>, variant |-> "Contact", func |-> ""],
       [name |-> "parse_reply_to_header", macro |-> "named", tag |-> <<"R", "e", "p", "l", "y", "-", "T", "o">>, variant |-> "ReplyTo", func |-> ""],
       [name |-> "parse_content_type_header", macro |-> "type", tag |-> <<"C", "o", "n", "t", "e", "n", "t", "-", "T", "y", "p", "e">>, variant |-> "ContentType", func |-> ""],
       [name |-> "parse_content_encoding_header", macro |-> "type", tag |-> <<"C", "o", "n", "t", "e", "n", "t", "-", "E", "n", "c", "o", "d", "i", "n", "g">>, variant |-> "ContentEncoding", func |-> ""],
       [name |-> "parse_accept_encoding_header", macro |-> "type", tag |-> <<"A", "c", "c", "e", "p", "t", "-", "E", "n", "c", "o", "d", "i", "n", "g">>, variant |-> "AcceptEncoding", func |-> ""],
       [name |-> "parse_content_language_header", macro |-> "lang", tag |-> <<"C", "o", "n", "t", "e", "n", "t", "-", "L", "a", "n", "g", "u", "a", "g", "e">>, variant |-> "ContentLanguage", func |-> ""],
       [name |-> "parse_accept_language_header", macro |-> "lang", tag |-> <<"A", "c", "c", "e", "p", "t", "-", "L", "a", "n", "g", "u", "a", "g", "e">>, variant |-> "AcceptLanguage", func |-> ""] >>

\* a registration slip: parse_allow_header defined with the tag of parse_accept_header
Registered_SharedTag(name) ==
    Bind(Registrations[CHOOSE k \in DOMAIN Registrations : Registrations[k].name = name],
         LAMBDA r : IF name = "parse_allow_header" THEN [r EXCEPT !.tag = <<"A", "c", "c", "e", "p", "t">>] ELSE r)

\* the registration that defines the function called name
Registered(name) ==
    Registrations[CHOOSE k \in DOMAIN Registrations : Registrations[k].name = name]

\* the alternatives of parse_header, in the order alt! tries them
AltOrder ==
    << "parse_accept_encoding_header", "parse_accept_header",
       "parse_accept_language_header", "parse_alert_info_header",
       "parse_allow_header", "parse_authentication_info_header",
       "parse_authorization_header", "parse_call_info_header",
       "parse_callid_header", "parse_contact_header",
       "parse_content_disposition_header", "parse_content_encoding_header",
       "parse_content_language_header", "parse_content_length_header",
       "parse_content_type_header", "parse_cseq_header",
       "parse_date_header", "parse_error_info_header",
       "parse_expires_header", "parse_from_header",
       "parse_in_reply_to_header", "parse_max_forwards_header",
       "parse_mime_version_header", "parse_min_expires_header",
       "parse_organization_header", "parse_priority_header",
       "parse_proxy_authenticate_header", "parse_proxy_authorization_header",
       "parse_proxy_require_header", "parse_record_route_header",
       "parse_reply_to_header", "parse_require_header",
       "parse_retry_after_header", "parse_route_header",
       "parse_server_header", "parse_subject_header",
       "parse_supported_header", "parse_timestamp_header",
       "parse_to_header", "parse_unsupported_header",
       "parse_useragent_header", "parse_via_header",
       "parse_warning_header", "parse_www_authenticate_header" >>

parse_header_names == {AltOrder[k] : k \in DOMAIN AltOrder}

\* the function a name of the alternation stands for
RunParser(name, i) ==
    IF name = "parse_cseq_header" THEN parse_cseq_header(i)
    ELSE Bind(Registered(name), LAMBDA r :
             CASE r.macro = "u32" -> impl_u32_parser(r.tag, r.variant, i)
               [] r.macro = "f32" -> impl_f32_parser(r.tag, r.variant, i)
               [] r.macro = "string" -> impl_string_parser(r.tag, r.variant, i)
               [] r.macro = "array" -> impl_array_parser(r.tag, r.variant, r.func, i)
               [] r.macro = "named" -> impl_named_parser(r.tag, r.variant, i)
               [] r.macro = "type" -> impl_type_parser(r.tag, r.variant, i)
               [] r.macro = "lang" -> impl_lang_parser(r.tag, r.variant, i))

\* alt!: the first alternative whose outcome is not Error decides
alt(order, i) ==
    Bind({k \in DOMAIN order : RunParser(order[k], i).kind # "Error"}, LAMBDA hit :
        IF hit = {} THEN Error
        ELSE RunParser(order[CHOOSE m \in hit : \A n \in hit : m <= n], i))

\* name, colon, value, terminator as Header::Other
parse_other_header(i) ==
    Then(take_while(LAMBDA c : ~(is_space(c) \/ c = ":" \/ c = "\r"), i), LAMBDA name :
    Then(opt_space(name.rest), LAMBDA a :
    Then(char(":", a.rest), LAMBDA c :
    Then(opt_space(c.rest), LAMBDA b :
    Then(take_until_cr(b.rest), LAMBDA value :
    Then(tag(CRLF, value.rest), LAMBDA e :
    Ok(e.rest, Hdr("Other", [name |-> name.val, value |-> value.val]))))))))

\* the alternation with a last alternative that catches every other line
parse_header_with_other(i) ==
    Bind(alt(AltOrder, i), LAMBDA r : IF r.kind = "Error" THEN parse_other_header(i) ELSE r)

parse_header(i) == alt(AltOrder, i)

(***************************************************************************)
(* The serializer (headers/write.rs, not part of the sources at hand):     *)
(* tag, ": ", and the value rendered by inverting its grammar.  The write  *)
(* tests fix the form: "Allow: INVITE,OPTION<<",", " ">>MIME-Version: 1",         *)
(* "Max-Forwards: 70", with no line terminator.                            *)
(***************************************************************************)
RECURSIVE u32_to_decimal(_)
\* the decimal digits of a u32, by long division of the two limbs by ten
u32_to_decimal(v) ==
    Bind((v.hi % 10) * 65536 + v.lo, LAMBDA t :
    Bind([hi |-> v.hi \div 10, lo |-> t \div 10], LAMBDA q :
        IF q.hi = 0 /\ q.lo = 0 THEN <<DigitChars[(t % 10) + 1]>>
        ELSE u32_to_decimal(q) \o <<DigitChars[(t % 10) + 1]>>))

f32_to_text(v) == IF v.fp = <<>> THEN v.ip ELSE v.ip \o <<".">> \o v.fp

MethodToken(m) ==
    MethodTokens[CHOOSE j \in DOMAIN MethodTokens : MethodTokens[j].method = m].token

RECURSIVE JoinItems(_)
JoinItems(items) ==
    IF items = <<>> THEN <<>>
    ELSE IF Len(items) = 1 THEN items[1]
    ELSE items[1] \o <<",">> \o JoinItems(Tail(items))

RECURSIVE ParamsText(_)
\* ";key=value" per entry, in the map's iteration order (some order of the keys)
ParamsText(map) ==
    IF DOMAIN map = {} THEN <<>>
    ELSE Bind(CHOOSE x \in DOMAIN map : TRUE, LAMBDA k :
         Bind([x \in DOMAIN map \ {k} |-> map[x]], LAMBDA others :
             <<";">> \o k \o <<"=">> \o map[k] \o ParamsText(others)))

ContentTypeToken(ty) == IF ty = "Sdp" THEN <<"a", "p", "p", "l", "i", "c", "a", "t", "i", "o", "n", "/", "s", "d", "p">> ELSE <<"t", "e", "x", "t", "/", "p", "l", "a", "i", "n">>
LanguageToken(l) == <<"e", "n">>

\* the registration that builds a variant
OfVariant(variant) ==
    Registrations[CHOOSE k \in DOMAIN Registrations : Registrations[k].variant = variant]

VariantShape(variant) ==
    IF variant = "CSeq" THEN "cseq"
    ELSE IF variant = "Other" THEN "other"
    ELSE Bind(OfVariant(variant), LAMBDA r : IF r.macro = "array" THEN r.func ELSE r.macro)

VariantTag(variant) ==
    IF variant = "CSeq" THEN <<"C", "S", "e", "q">> ELSE OfVariant(variant).tag

SerializeValue(h) ==
    Bind(VariantShape(h.variant), LAMBDA m : Bind(h.payload, LAMBDA p :
        CASE m = "u32" -> u32_to_decimal(p)
          [] m = "f32" -> f32_to_text(p)
          [] m = "string" -> p
          [] m = "parse_method" -> JoinItems([k \in DOMAIN p |-> MethodToken(p[k])])
          [] m = "parse_string" -> JoinItems(p)
          [] m = "named" ->
                (IF p.name = None THEN <<>> ELSE <<DQUOTE>> \o p.name[1] \o <<DQUOTE>> \o <<" ">>)
                \o <<"<", "s", "i", "p", ":">> \o p.uri.addr \o <<">">> \o ParamsText(p.params)
          [] m = "type" -> ContentTypeToken(p)
          [] m = "lang" -> LanguageToken(p)
          [] m = "cseq" -> u32_to_decimal(p.seq) \o <<" ">> \o MethodToken(p.method)
          [] m = "other" -> p.value))

Serialize(h) ==
    (IF h.variant = "Other" THEN h.payload.name ELSE VariantTag(h.variant))
    \o <<":", " ">> \o SerializeValue(h)

(***************************************************************************)
(* The byte slices the grammar is called on.                               *)
(***************************************************************************)
RECURSIVE SpaceRuns(_)
\* runs of ' ' and '\t' of at most n bytes
SpaceRuns(n) ==
    IF n = 0 THEN {<<>>}
    ELSE SpaceRuns(n - 1) \cup {r \o <<c>> : r \in SpaceRuns(n - 1), c \in {" ", "\t"}}

\* what follows the value: the terminator, nothing, one more byte, a further line
Tails == {CRLF, <<>>, <<" ">>, <<"\r", "\n", "V", "i", "a">>}

RECURSIVE Joined(_, _, _)
\* up to n pieces, each piece led by one of the separators (the first by none)
Joined(items, seps, n) ==
    IF n = 0 THEN {<<>>}
    ELSE Bind(Joined(items, seps, n - 1), LAMBDA shorter :
             shorter \cup items
             \cup {l \o s \o it : l \in shorter \ {<<>>}, s \in seps, it \in items})

ListSeps == {<<",">>, <<",", " ">>}
MethodLists == Joined({<<"I", "N", "V", "I", "T", "E">>, <<"O", "P", "T", "I", "O", "N", "S">>, <<"F", "O", "O">>, <<>>}, ListSeps, MaxItems)
WordLists == Joined({<<"a", "b", "c">>, <<"d", "1">>, <<>>}, ListSeps, MaxItems)

ParamGroups == {<<";", "t", "a", "g", "=", "x", "1">>, <<";", "t", "a", "g", "=", "y">>, <<";", "a">>, <<";", "=">>}
ParamTexts == Joined(ParamGroups, {<<>>}, MaxParams)

NamedValues ==
    {<<"<", "s", "i", "p", ":", "a", "@", "b", ".", "c", ">">>, <<"\"", "B", "o", "b", "\"", " ", "<", "s", "i", "p", ":", "a", "@", "b", ".", "c", ">">>, <<"B", "o", "b", " ", "<", "s", "i", "p", ":", "a", "@", "b", ".", "c", ">">>, <<"B", "o", "b", "<", "t", "e", "l", ":", "1", ">">>,
     <<"\"", "B", "o", "b", " ", "<", "s", "i", "p", ":", "a", "@", "b", ".", "c", ">">>}

\* the shape of value a tag's grammar reads
Shape(name) ==
    IF name = "parse_cseq_header" THEN "cseq"
    ELSE IF Registered(name).macro = "array" THEN Registered(name).func
    ELSE Registered(name).macro

TagOfParser(name) ==
    IF name = "parse_cseq_header" THEN <<"C", "S", "e", "q">> ELSE Registered(name).tag

Payloads(shape) ==
    CASE shape = "u32" ->
            {<<>>, <<"a", "b", "c">>, <<"0">>, <<"6", "0">>, <<"0", "0", "7">>, <<"1", "2", "a">>, <<"4", "2", "9", "4", "9", "6", "7", "2", "9", "5">>, <<"4", "2", "9", "4", "9", "6", "7", "2", "9", "6">>,
             <<"9", "9", "9", "9", "9", "9", "9", "9", "9", "9", "9">>}
      [] shape = "f32" -> {<<"1", ".", "0">>, <<"1">>, <<"2", ".", "5">>, <<".">>, <<"1", ".", "2", ".", "3">>, <<>>}
      [] shape = "string" -> {<<"w", "e", "d", " ", "1", " ", "2", "0", "0", "1">>, <<"x">>, <<>>}
      [] shape = "parse_method" -> MethodLists
      [] shape = "parse_string" -> WordLists
      [] shape = "named" ->
            {<<"<", "s", "i", "p", ":", "a", "@", "b", ".", "c", ">">> \o p : p \in ParamTexts}
            \cup {v \o p : v \in NamedValues, p \in {<<>>, <<";", "t", "a", "g", "=", "x", "1">>, <<";", "k", "=", " ", "v">>}}
      [] shape = "type" -> {<<"a", "p", "p", "l", "i", "c", "a", "t", "i", "o", "n", "/", "s", "d", "p">>, <<"t", "e", "x", "t", "/", "p", "l", "a", "i", "n">>, <<"a", "p", "p">>}
      [] shape = "lang" -> {<<"e", "n">>, <<"f", "r">>, <<"e">>}
      [] shape = "cseq" ->
            {<<"1", " ", "I", "N", "V", "I", "T", "E">>, <<"2", "M", "E", "S", "S", "A", "G", "E">>, <<"x", " ", "I", "N", "V", "I", "T", "E">>, <<"1", " ", "F", "O", "O">>, <<"4", "2", "9", "4", "9", "6", "7", "2", "9", "6", " ", "I", "N", "V", "I", "T", "E">>, <<"3">>}
      [] shape = "unknown" -> {<<"v">>}

\* one value of each shape, put after every tag
CrossPayloads == {<<"6", "0">>, <<"a", "p", "p", "l", "i", "c", "a", "t", "i", "o", "n", "/", "s", "d", "p">>, <<"I", "N", "V", "I", "T", "E">>, <<"v">>, <<"e", "n">>}

Canonical(shape) ==
    CASE shape = "u32" -> <<"6", "0">>
      [] shape = "f32" -> <<"1", ".", "0">>
      [] shape = "string" -> <<"x">>
      [] shape = "parse_method" -> <<"I", "N", "V", "I", "T", "E", ",", "O", "P", "T", "I", "O", "N", "S">>
      [] shape = "parse_string" -> <<"a", "b", "c">>
      [] shape = "named" -> <<"<", "s", "i", "p", ":", "a", "@", "b", ".", "c", ">", ";", "t", "a", "g", "=", "x", "1">>
      [] shape = "type" -> <<"a", "p", "p", "l", "i", "c", "a", "t", "i", "o", "n", "/", "s", "d", "p">>
      [] shape = "lang" -> <<"e", "n">>
      [] shape = "cseq" -> <<"1", " ", "I", "N", "V", "I", "T", "E">>
      [] shape = "unknown" -> <<"v">>

UnknownTags == {<<"X", "-", "C", "u", "s", "t", "o", "m">>, <<"A", "c", "c">>, <<"A", "c", "c", "e", "p", "t", "-", "F", "o", "o">>}

LineHeads ==
    {[tag |-> TagOfParser(n), shape |-> Shape(n)] : n \in parse_header_names}
    \cup {[tag |-> t, shape |-> "unknown"] : t \in UnknownTags}

\* the lines generated for one tag
LinesOf(h) ==
    {h.tag \o w1 \o <<":">> \o w2 \o Canonical(h.shape) \o e :
        w1 \in {<<>>, <<" ">>}, w2 \in SpaceRuns(MaxWs), e \in Tails}
    \cup {h.tag \o <<":", " ">> \o p \o e : p \in Payloads(h.shape) \cup CrossPayloads, e \in Tails}
    \cup {h.tag \o w \o Canonical(h.shape) \o CRLF : w \in {<<>>, <<" ">>}}

Lines == UNION {LinesOf(h) : h \in LineHeads}

IsPrefix(a, b) == Len(a) <= Len(b) /\ Take(b, Len(a)) = a

\* the lines a single header grammar is called on: those of every tag that its own
\* tag begins or is the beginning of
LinesFor(name) ==
    UNION {LinesOf(h) : h \in {x \in LineHeads :
              IsPrefix(TagOfParser(name), x.tag) \/ IsPrefix(x.tag, TagOfParser(name))}}

ParamInputs == {p \o e : p \in ParamTexts, e \in Tails \cup {<<"x">>}}

(***************************************************************************)
(* Header values handed to the serializer: every variant, with the         *)
(* payloads of its shape.                                                  *)
(***************************************************************************)
SampleUri == [schema |-> "Sip", addr |-> <<"a", "@", "b", ".", "c">>]

SamplePayloads(shape) ==
    CASE shape = "u32" -> {U32(0), U32(70), [hi |-> 65535, lo |-> 65535]}
      [] shape = "f32" -> {[ip |-> <<"1">>, fp |-> <<>>], [ip |-> <<"2">>, fp |-> <<"5">>]}
      [] shape = "string" -> {<<"w", "e", "d", " ", "1", " ", "2", "0", "0", "1">>, <<"x">>}
      [] shape = "parse_method" -> {<<"Invite", "Options">>, <<"Register">>}
      [] shape = "parse_string" -> {<<<<"a", "b", "c">>>>, <<<<"a", "b", "c">>, <<"d", "e">>>>}
      [] shape = "named" ->
            {[name |-> None, uri |-> SampleUri, params |-> EmptyMap],
             [name |-> Some(<<"B", "o", "b">>), uri |-> SampleUri,
              params |-> MapInsert(MapInsert(EmptyMap, <<"t", "a", "g">>, <<"x", "y", "z">>), <<"f", "o", "o">>, <<"b", "a", "r">>)]}
      [] shape = "type" -> {"Sdp", "PlainText"}
      [] shape = "lang" -> {"English"}
      [] shape = "cseq" -> {[seq |-> U32(1), method |-> "Invite"]}

SampleHeaders ==
    UNION {{Hdr(IF n = "parse_cseq_header" THEN "CSeq" ELSE Registered(n).variant, p) :
               p \in SamplePayloads(Shape(n))} : n \in parse_header_names}
    \cup {Hdr("Other", [name |-> <<"X", "-", "C", "u", "s", "t", "o", "m">>, value |-> <<"v">>])}

(***************************************************************************)
(* The Headers container (headers/mod.rs) and the MessageHelper accessors  *)
(* (client/messaging.rs).                                                  *)
(***************************************************************************)
\* Headers::new
Headers_new == <<>>

\* a push that skips a header already stored
Headers_push_dedup(self, h) ==
    IF \E k \in DOMAIN self : HeaderEq(self[k], h) THEN self ELSE Append(self, h)

\* Headers::push: self.0.push(h)
Headers_push(self, h) == Append(self, h)

\* Headers::extend: self.0.extend(i)
Headers_extend(self, i) == self \o i

\* Headers::iter: self.0.iter(), collected
Headers_iter(self) == [k \in 1..Len(self) |-> self[k]]

RECURSIVE expires_last_loop(_, _)
expires_last_loop(self, k) ==
    IF k = 0 THEN None
    ELSE IF self[k].variant = "Expires" THEN Some(Hdr("Expires", self[k].payload))
    ELSE expires_last_loop(self, k - 1)

\* the scan run from the back: the last Expires entry
Headers_expires_last(self) == expires_last_loop(self, Len(self))

RECURSIVE expires_loop(_, _)
expires_loop(self, k) ==
    IF k > Len(self) THEN None
    ELSE IF self[k].variant = "Expires" THEN Some(Hdr("Expires", self[k].payload))
    ELSE expires_loop(self, k + 1)

\* Headers::expires: for h in &self.0 { if let Header::Expires(i) = h { return Some(..) } } None
Headers_expires(self) == expires_loop(self, 1)

RECURSIVE cseq_loop(_, _)
cseq_loop(self, k) ==
    IF k > Len(self) THEN None
    ELSE IF self[k].variant = "CSeq"
         THEN Some(Hdr("CSeq", [seq |-> self[k].payload.seq, method |-> self[k].payload.method]))
    ELSE cseq_loop(self, k + 1)

\* Headers::cseq
Headers_cseq(self) == cseq_loop(self, 1)

RECURSIVE call_id_loop(_, _)
call_id_loop(self, k) ==
    IF k > Len(self) THEN None
    ELSE IF self[k].variant = "CallId" THEN Some(Hdr("CallId", self[k].payload))
    ELSE call_id_loop(self, k + 1)

\* Headers::call_id, which MessageHelper::call_id calls: the same scan as expires and
\* cseq (its definition is not part of the sources at hand)
Headers_call_id(self) == call_id_loop(self, 1)

\* impl_simple_header_method!: Ok(payload) if the accessor gave Some($variant(..)),
\* else Err("message doesnt contain a $variant header")
impl_simple_header_method(variant, got) ==
    IF got # None /\ got[1].variant = variant
    THEN [ok |-> TRUE, val |-> got[1].payload]
    ELSE [ok |-> FALSE, err |-> <<"message doesnt contain a {} header", variant>>]

\* MessageHelper::call_id
MessageHelper_call_id(self) == impl_simple_header_method("CallId", Headers_call_id(self))

(***************************************************************************)
(* The state machine of the grammar: one call, then its result.            *)
(***************************************************************************)
NoResult == [kind |-> "None"]

Called(f, i, h) ==
    /\ pc = "idle"
    /\ pc' = "done"
    /\ fn' = f
    /\ input' = i
    /\ hdr' = h
    /\ UNCHANGED containerVars
    /\ UNCHANGED writerVars

\* parse_header(line)
ParseHeader ==
    \E i \in Lines :
        /\ Called("parse_header", i, <<>>)
        /\ out' = parse_header(i)

\* parse_<tag>_header(line), called directly as the read tests do
ParseSingle ==
    \E n \in parse_header_names : \E i \in LinesFor(n) :
        /\ Called(n, i, <<>>)
        /\ out' = RunParser(n, i)

\* parse_named_field_params(bytes)
ParseParams ==
    \E i \in ParamInputs :
        /\ Called("parse_named_field_params", i, <<>>)
        /\ out' = parse_named_field_params(i)

\* format!("{}", header), handed on as it is or framed as a line, then parse_header
RoundTrip ==
    \E h \in SampleHeaders : \E e \in {<<>>, CRLF} :
        /\ Called("parse_header", Serialize(h) \o e, <<h>>)
        /\ out' = parse_header(Serialize(h) \o e)

GrammarInit ==
    /\ pc = "idle"
    /\ fn = ""
    /\ input = <<>>
    /\ out = NoResult
    /\ hdr = <<>>

\* let mut headers = Headers::new()
ContainerInit ==
    /\ headers = Headers_new
    /\ calls = <<>>
    /\ op = "new"
    /\ ret = <<>>

NoWriter == [cseq |-> <<>>]

\* no MessageWriter constructed yet
WriterInit ==
    /\ writer = NoWriter
    /\ sent = <<>>

Init == GrammarInit /\ ContainerInit /\ WriterInit

Next ==
    \/ ParseHeader
    \/ ParseSingle
    \/ ParseParams
    \/ RoundTrip

Spec == Init /\ [][Next]_vars


(***************************************************************************)
(* The state machine of the container: one method call per step.            *)
(***************************************************************************)
\* the header values the container is filled with
Expires1 == Hdr("Expires", [hi |-> 0, lo |-> 3600])
Expires2 == Hdr("Expires", [hi |-> 0, lo |-> 60])
CSeq1 == Hdr("CSeq", [seq |-> [hi |-> 0, lo |-> 1], method |-> "Invite"])
CSeq2 == Hdr("CSeq", [seq |-> [hi |-> 0, lo |-> 2], method |-> "Message"])
CallId1 == Hdr("CallId", <<"a", "@", "b">>)
CallId2 == Hdr("CallId", <<"c", "@", "d">>)

PushArgs == {Expires1, Expires2, CSeq1, CSeq2, CallId1, CallId2}
ExtendArgs ==
    {<<>>, <<Expires2, Expires1>>, <<CSeq2, CallId2, CSeq1>>, <<CallId1, CallId1>>}

Returned(o, r) ==
    /\ op' = o
    /\ ret' = r
    /\ UNCHANGED grammarVars
    /\ UNCHANGED writerVars

\* headers.push(h)
Push ==
    \E h \in PushArgs :
        /\ Len(calls) < MaxCalls
        /\ headers' = Headers_push(headers, h)
        /\ calls' = Append(calls, <<h>>)
        /\ Returned("push", <<>>)

\* headers.extend(i)
Extend ==
    \E i \in ExtendArgs :
        /\ Len(calls) < MaxCalls
        /\ headers' = Headers_extend(headers, i)
        /\ calls' = Append(calls, i)
        /\ Returned("extend", <<>>)

\* headers.iter().collect()
Iter ==
    /\ Returned("iter", Headers_iter(headers))
    /\ UNCHANGED <<headers, calls>>

\* headers.expires()
Expires ==
    /\ Returned("expires", Headers_expires(headers))
    /\ UNCHANGED <<headers, calls>>

\* headers.cseq()
CSeq ==
    /\ Returned("cseq", Headers_cseq(headers))
    /\ UNCHANGED <<headers, calls>>

\* MessageHelper { headers, .. }.call_id()
CallId ==
    /\ Returned("call_id", MessageHelper_call_id(headers))
    /\ UNCHANGED <<headers, calls>>

NextHeaders ==
    \/ Push
    \/ Extend
    \/ Iter
    \/ Expires
    \/ CSeq
    \/ CallId

SpecHeaders == Init /\ [][NextHeaders]_vars

(***************************************************************************)
(* MessageWriter (src/src/client/messaging.rs).  A body is kept as its     *)
(* length only, a usize in the same two limbs as a u32 with the high limb  *)
(* free to pass 65535 (a 64-bit target); nothing in write_message reads    *)
(* the bytes.  RequestGenerator, NamedHeader and Uri are not in the        *)
(* snapshot: the generator is the builder its calls show, keeping the      *)
(* headers in the order of the header() calls.                             *)
(***************************************************************************)
\* Uri, with the host field MessageWriter::new reads
Uri(schema, user, host) ==
    [schema |-> schema, addr |-> user \o <<"@">> \o host, host |-> host]

\* Uri::schema(self, Schema)
Uri_schema(uri, schema) == [uri EXCEPT !.schema = schema]

\* NamedHeader::new(uri): no display name, no parameters
NamedHeader_new(uri) == [name |-> None, uri |-> uri, params |-> EmptyMap]

\* body.len() as u32: the low 32 bits of the usize
as_u32(n) == [hi |-> n.hi % 65536, lo |-> n.lo]

\* self.cseq += 1 on a u32 (a release build wraps at u32::MAX, a debug build panics)
u32_add_one(v) ==
    IF v.lo < 65535 THEN [hi |-> v.hi, lo |-> v.lo + 1]
    ELSE [hi |-> (v.hi + 1) % 65536, lo |-> 0]

\* MessageWriter::new(uri); digest is md5::compute(rand::random::<[u8; 16]>()) in hex
MessageWriter_new(uri, digest) ==
    [cseq |-> U32(0), user_agent |-> None, uri |-> uri,
     call_id |-> digest \o <<"@">> \o uri.host]

MessageWriter_cseq(self) == Hdr("CSeq", [seq |-> self.cseq, method |-> "Message"])
MessageWriter_content_type(self) == Hdr("ContentType", "PlainText")
MessageWriter_max_forwards(self) == Hdr("MaxForwards", U32(70))
MessageWriter_call_id(self) == Hdr("CallId", self.call_id)
MessageWriter_from(self) == Hdr("From", NamedHeader_new(self.uri))

\* env!("CARGO_PKG_VERSION")
PkgVersion == <<"V", "E", "R", "S", "I", "O", "N">>

MessageWriter_user_agent(self) ==
    IF self.user_agent # None THEN Hdr("UserAgent", self.user_agent[1])
    ELSE Hdr("UserAgent", <<"l", "i", "b", "s", "i", "p", " ">> \o PkgVersion)

\* RequestGenerator::new().method(m).uri(u).header(h)*.body(b).build()
RequestGenerator_build(method, uri, hs, body) ==
    [ok |-> TRUE,
     val |-> [method |-> method, uri |-> uri, headers |-> hs, body |-> body]]

\* the request write_message builds from the writer as it is
build_message(self, body, to, via_header) ==
    RequestGenerator_build("Message", Uri_schema(to, "Sip"),
        << via_header,
           Hdr("To", NamedHeader_new(to)),
           MessageWriter_from(self),
           MessageWriter_cseq(self),
           MessageWriter_call_id(self),
           MessageWriter_user_agent(self),
           MessageWriter_max_forwards(self),
           MessageWriter_content_type(self),
           Hdr("ContentLength", as_u32(body.len)) >>,
        body)

\* the request built first, the counter incremented after it
MessageWriter_write_message_late(self, body, to, via_header) ==
    [self |-> [self EXCEPT !.cseq = u32_add_one(self.cseq)],
     result |-> build_message(self, body, to, via_header)]

\* MessageWriter::write_message: the writer after the call and the call's result
MessageWriter_write_message(self, body, to, via_header) ==
    Bind([self EXCEPT !.cseq = u32_add_one(self.cseq)], LAMBDA self2 :
        [self |-> self2, result |-> build_message(self2, body, to, via_header)])

WriterUris == {Uri("Sip", <<"a">>, <<"b", ".", "c">>), Uri("Sips", <<"a">>, <<"d", ".", "e">>)}
Digests == {<<"d", "4", "1", "d", "8", "c">>, <<"9", "e", "1", "0", "7", "d">>}
ToArgs == {Uri("Sip", <<"x">>, <<"y", ".", "z">>), Uri("Sips", <<"x">>, <<"b", ".", "c">>)}
ViaArgs == {Hdr("Via", <<"S", "I", "P", "/", "2", ".", "0", "/", "U", "D", "P", " ", "b", ".", "c">>)}

\* body lengths: empty, short, u32::MAX, and past it
BodyArgs ==
    {[len |-> U32(0)], [len |-> U32(5)], [len |-> [hi |-> 65535, lo |-> 65535]],
     [len |-> [hi |-> 65536, lo |-> 0]], [len |-> [hi |-> 65536, lo |-> 5]]}

\* let mut writer = MessageWriter::new(uri)
New ==
    \E uri \in WriterUris, digest \in Digests :
        /\ writer = NoWriter
        /\ writer' = MessageWriter_new(uri, digest)
        /\ UNCHANGED sent
        /\ UNCHANGED grammarVars
        /\ UNCHANGED containerVars

\* writer.write_message(body, to, via_header)
WriteMessage ==
    \E body \in BodyArgs, to \in ToArgs, via_header \in ViaArgs :
        /\ writer # NoWriter
        /\ Len(sent) < MaxWrites
        /\ writer' = MessageWriter_write_message(writer, body, to, via_header).self
        /\ sent' = Append(sent, MessageWriter_write_message(writer, body, to, via_header).result)
        /\ UNCHANGED grammarVars
        /\ UNCHANGED containerVars

NextWriter ==
    \/ New
    \/ WriteMessage

SpecWriter == Init /\ [][NextWriter]_vars

(***************************************************************************)
(* Properties.                                                             *)
(***************************************************************************)
Done(f) == pc = "done" /\ fn = f

\* the index of the first "\r\n" of i, or 0
FirstCRLF(i) ==
    Bind({k \in 1..(Len(i) - 1) : i[k] = "\r" /\ i[k + 1] = "\n"}, LAMBDA at :
        IF at = {} THEN 0 ELSE CHOOSE m \in at : \A n \in at : m <= n)

IsLine(i) == FirstCRLF(i) > 0
AfterLine(i) == Drop(i, FirstCRLF(i) + 1)

ResultEq(a, b) ==
    /\ a.kind = b.kind
    /\ a.kind = "Ok" => (a.rest = b.rest /\ HeaderEq(a.val, b.val))

RoundTrips(h, e) ==
    Bind(parse_header(Serialize(h) \o e), LAMBDA r : r.kind = "Ok" /\ HeaderEq(r.val, h))

\* C1: round trip.  For every Header value h, parse_header applied to the serializer's
\* output for h succeeds and yields a Header equal to h.  Stated here in the weaker form
\* the claim implies: the output parses back either as it is or framed with the line
\* terminator a message writer puts after it.
C1_RoundTrip ==
    (pc = "done" /\ hdr # <<>>) =>
        (RoundTrips(hdr[1], <<>>) \/ RoundTrips(hdr[1], CRLF))

RECURSIVE Reverse(_)
Reverse(s) == IF s = <<>> THEN <<>> ELSE Append(Reverse(Tail(s)), Head(s))

\* C2: dispatcher order-independence.  On every input line at most one alternative of
\* parse_header succeeds and every alternative whose outcome is not Error has the
\* outcome parse_header returns, so any order of the alternatives (the reversed one is
\* run) returns the same result; the "Accept" grammar rejects a line that begins
\* "Accept-Encoding" or "Accept-Language", and "Accept-Encoding: application/sdp\r\n"
\* yields AcceptEncoding.
C2_OrderIndependent ==
    (Done("parse_header") /\ IsLine(input)) =>
        /\ Cardinality({n \in parse_header_names : RunParser(n, input).kind = "Ok"}) <= 1
        /\ \A n \in parse_header_names :
              Bind(RunParser(n, input), LAMBDA r : r.kind # "Error" => ResultEq(r, out))
        /\ ResultEq(alt(Reverse(AltOrder), input), out)
        /\ (IsPrefix(<<"A", "c", "c", "e", "p", "t", "-", "E", "n", "c", "o", "d", "i", "n", "g">>, input) \/ IsPrefix(<<"A", "c", "c", "e", "p", "t", "-", "L", "a", "n", "g", "u", "a", "g", "e">>, input))
              => RunParser("parse_accept_header", input).kind = "Error"
        /\ input = <<"A", "c", "c", "e", "p", "t", "-", "E", "n", "c", "o", "d", "i", "n", "g", ":", " ", "a", "p", "p", "l", "i", "c", "a", "t", "i", "o", "n", "/", "s", "d", "p", "\r", "\n">>
              => (out.kind = "Ok" /\ out.val.variant = "AcceptEncoding")

C2_Witness ==
    /\ Done("parse_header")
    /\ input = <<"A", "c", "c", "e", "p", "t", "-", "E", "n", "c", "o", "d", "i", "n", "g", ":", " ", "a", "p", "p", "l", "i", "c", "a", "t", "i", "o", "n", "/", "s", "d", "p", "\r", "\n">>
    /\ out.kind = "Ok"
    /\ out.val.variant = "AcceptEncoding"

\* C3: whenever parse_header succeeds, the returned remainder starts immediately after
\* the first "\r\n" of the input, for every header shape.
C3_ConsumesLine ==
    (Done("parse_header") /\ out.kind = "Ok") =>
        (IsLine(input) /\ out.rest = AfterLine(input))

ArrayParsers == {"parse_accept_header", "parse_allow_header", "parse_supported_header"}

\* C4: the array grammars (Accept, Allow, Supported) never return a header with an
\* empty sequence; an empty value after the colon fails to parse.
C4_EmptyArrayFails ==
    (pc = "done" /\ fn \in ArrayParsers \cup {"parse_header"} /\ out.kind = "Ok"
        /\ out.val.variant \in {"Accept", "Allow", "Supported"})
    => out.val.payload # <<>>

RegisteredTags == {TagOfParser(n) : n \in parse_header_names}

\* the bytes of a line before the first whitespace, colon or carriage return
LineTag(i) ==
    Bind(Position(LAMBDA c : is_space(c) \/ c = ":" \/ c = "\r", i), LAMBDA k :
        IF k = 0 THEN i ELSE Take(i, k - 1))

\* C5: for a line whose tag is not a recognized header tag parse_header returns a
\* parse failure, and no input makes parse_header return the Other variant.
C5_NoOther ==
    Done("parse_header") =>
        /\ out.kind = "Ok" => out.val.variant # "Other"
        /\ LineTag(input) \notin RegisteredTags => out.kind = "Error"

C5_Witness ==
    /\ Done("parse_header")
    /\ input = <<"X", "-", "C", "u", "s", "t", "o", "m", ":", " ", "v", "\r", "\n">>
    /\ out.kind = "Error"

NumericParsers ==
    {"parse_expires_header", "parse_min_expires_header", "parse_content_length_header",
     "parse_max_forwards_header", "parse_timestamp_header"}

AllDigits(s) == \A k \in 1..Len(s) : is_digit(s[k])

\* a <= b for decimal digit strings of one length
DecimalLeq(a, b) ==
    \/ a = b
    \/ \E k \in 1..Len(a) :
          /\ DigitVal(a[k]) < DigitVal(b[k])
          /\ \A j \in 1..(k - 1) : a[j] = b[j]

\* the decimal digit string s denotes a value of at most 2^32 - 1
FitsU32(s) ==
    Bind(StripLeadingZeros(s), LAMBDA d :
        Len(d) < 10 \/ (Len(d) = 10 /\ DecimalLeq(d, <<"4", "2", "9", "4", "9", "6", "7", "2", "9", "5">>)))

\* the bytes of i before its first carriage return (all of i if it has none)
UpToCR(i) ==
    Bind(Position(LAMBDA c : c = "\r", i), LAMBDA k : IF k = 0 THEN i ELSE Take(i, k - 1))

\* C6: a numeric header grammar succeeds only when the payload is one or more decimal
\* digits whose value fits in a u32, and then the payload of the returned header is
\* that decimal value; an empty or non-digit payload and a digit string above
\* 2^32 - 1 are failures, never a zero or wrapped value.
C6_NumericPayload ==
    \A n \in NumericParsers :
        Done(n) =>
            Bind(tag_colon(TagOfParser(n), input), LAMBDA p :
                IF p.kind # "Ok" THEN out.kind # "Ok"
                ELSE Bind(UpToCR(p.rest), LAMBDA payload :
                    /\ out.kind = "Ok" =>
                          /\ payload # <<>> /\ AllDigits(payload) /\ FitsU32(payload)
                          /\ out.val.variant = Registered(n).variant
                          /\ u32_to_decimal(out.val.payload) = StripLeadingZeros(payload)
                    /\ (payload = <<>> \/ ~AllDigits(payload) \/ ~FitsU32(payload))
                          => (out.kind # "Ok" /\ (IsLine(input) => out.kind = "Error"))))

C6_Witness ==
    /\ Done("parse_max_forwards_header")
    /\ input = <<"M", "a", "x", "-", "F", "o", "r", "w", "a", "r", "d", "s", ":", " ", "4", "2", "9", "4", "9", "6", "7", "2", "9", "6", "\r", "\n">>
    /\ out.kind = "Error"

UnterminatedShapes == {"u32", "f32", "parse_method", "parse_string"}

\* C7: the individual header parsers do not require a CRLF after the value: on tag,
\* colon, a valid value and one trailing byte that is not part of the value (as in
\* "Max-Forwards: 60 ", "Allow: REGISTER,INVITE ", "MIME-Version: 1.0 ") the parser
\* succeeds and returns the trailing byte as the remainder.
C7_NoTerminatorNeeded ==
    \A n \in {x \in parse_header_names : Shape(x) \in UnterminatedShapes} :
        (Done(n) /\ input = TagOfParser(n) \o <<":", " ">> \o Canonical(Shape(n)) \o <<" ">>)
        => (out.kind = "Ok" /\ out.rest = <<" ">>)

\* the first entry of self of the variant, as an Option
FirstOf(variant, self) ==
    Bind({k \in DOMAIN self : self[k].variant = variant}, LAMBDA at :
        IF at = {} THEN None ELSE Some(self[CHOOSE m \in at : \A n \in at : m <= n]))

OptionEq(a, b) == Len(a) = Len(b) /\ (a # None => HeaderEq(a[1], b[1]))

\* C8: a typed accessor returns the matching header of lowest index, and None (an Err
\* naming the header, from MessageHelper) exactly when no entry of the variant is stored.
C8_FirstMatch ==
    /\ op = "expires" => OptionEq(ret, FirstOf("Expires", headers))
    /\ op = "cseq" => OptionEq(ret, FirstOf("CSeq", headers))
    /\ op = "call_id" =>
          Bind(FirstOf("CallId", headers), LAMBDA f :
              IF f = None THEN ~ret.ok /\ ret.err[2] = "CallId"
              ELSE ret.ok /\ ret.val = f[1].payload)

C8_Witness ==
    /\ op = "expires"
    /\ ret # None
    /\ \E j, k \in DOMAIN headers :
          /\ j < k
          /\ headers[j].variant = "Expires"
          /\ headers[k].variant = "Expires"
          /\ headers[j].payload # headers[k].payload
          /\ HeaderEq(ret[1], headers[j])
          /\ \A m \in 1..(j - 1) : headers[m].variant # "Expires"

RECURSIVE Concat(_)
Concat(cs) == IF cs = <<>> THEN <<>> ELSE cs[1] \o Concat(Tail(cs))

HeadersEq(a, b) == Len(a) = Len(b) /\ \A k \in 1..Len(a) : HeaderEq(a[k], b[k])

\* C9: the stored sequence is the concatenation, in call order, of every pushed header
\* and every extended list, duplicates kept; iter and the accessors leave it as it is
\* and iter yields it in stored order.
C9_AppendOnly ==
    /\ HeadersEq(headers, Concat(calls))
    /\ op = "iter" => HeadersEq(ret, headers)

C9_Witness ==
    /\ op = "iter"
    /\ Len(calls) >= 2
    /\ HeadersEq(ret, headers)
    /\ \E j, k \in DOMAIN headers : j < k /\ HeaderEq(headers[j], headers[k])

\* ';' alphabetic* '=' alphanumeric*
IsGroup(g) ==
    /\ g # <<>>
    /\ g[1] = ";"
    /\ \E e \in 2..Len(g) :
          /\ g[e] = "="
          /\ \A k \in 2..(e - 1) : is_alphabetic(g[k])
          /\ \A k \in (e + 1)..Len(g) : is_alphanumeric(g[k])

Semis(s) == {k \in 1..Len(s) : s[k] = ";"}

\* the bytes of s from the ';' at p up to the next ';' or the end
GroupAt(s, p) ==
    Bind({k \in Semis(s) : k > p}, LAMBDA later :
        IF later = {} THEN SubSeq(s, p, Len(s))
        ELSE SubSeq(s, p, (CHOOSE m \in later : \A n \in later : m <= n) - 1))

\* s is a run of consecutive well-formed groups
AllGroups(s) == s = <<>> \/ (s[1] = ";" /\ \A p \in Semis(s) : IsGroup(GroupAt(s, p)))

\* the length of the longest prefix of i that is such a run
LongestGroups(i) ==
    CHOOSE k \in 0..Len(i) :
        AllGroups(Take(i, k)) /\ \A m \in (k + 1)..Len(i) : ~AllGroups(Take(i, m))

EqualsAt(g) == CHOOSE e \in 2..Len(g) : g[e] = "="
KeyOf(g) == SubSeq(g, 2, EqualsAt(g) - 1)
ValueOf(g) == SubSeq(g, EqualsAt(g) + 1, Len(g))

\* for each key of the run s, the value of its last occurrence
LastValues(s) ==
    [key \in {KeyOf(GroupAt(s, p)) : p \in Semis(s)} |->
        ValueOf(GroupAt(s, CHOOSE p \in Semis(s) :
            /\ KeyOf(GroupAt(s, p)) = key
            /\ \A q \in Semis(s) : KeyOf(GroupAt(s, q)) = key => q <= p))]

\* out is Ok, having consumed the first k bytes of the input as groups
ConsumedGroups(k) ==
    /\ out.kind = "Ok"
    /\ out.rest = Drop(input, k)
    /\ out.val = LastValues(Take(input, k))

NamedParsers ==
    {"parse_to_header", "parse_from_header", "parse_contact_header", "parse_reply_to_header"}

\* a named-address header that parsed: its parameters stopped at "\r\n"
NamedEndsAtCRLF ==
    \A n \in NamedParsers :
        (Done(n) /\ out.kind = "Ok") =>
            Bind(tag_colon(TagOfParser(n), input), LAMBDA p :
            Bind(parse_named_field_value(p.rest), LAMBDA v :
            Bind(parse_named_field_params(v.rest), LAMBDA m :
                /\ IsPrefix(CRLF, m.rest)
                /\ out.rest = Drop(m.rest, 2)
                /\ out.val.payload.params = m.val)))

\* C10 as claimed: parse_named_field_params never fails, consumes the longest prefix
\* made of consecutive well-formed ";key=value" groups, returns the rest untouched and
\* a map holding for each key the value of its last occurrence in that prefix; the
\* enclosing named-address header succeeds only if that remainder starts with "\r\n".
C10_LongestPrefix ==
    /\ Done("parse_named_field_params") => ConsumedGroups(LongestGroups(input))
    /\ NamedEndsAtCRLF

\* C10 as amended: the same when a byte follows that prefix (as in a line, where the
\* terminator does); when the input ends with the prefix, its last group is not
\* consumed: the value's take_while! is Incomplete, which the loop takes as a mismatch.
C10_LongestPrefixFollowed ==
    /\ Done("parse_named_field_params") =>
          Bind(LongestGroups(input), LAMBDA k :
              IF k < Len(input) \/ k = 0 THEN ConsumedGroups(k)
              ELSE ConsumedGroups((CHOOSE p \in Semis(input) : \A q \in Semis(input) : q <= p) - 1))
    /\ NamedEndsAtCRLF

C10_Witness ==
    /\ Done("parse_named_field_params")
    /\ input = <<";", "t", "a", "g", "=", "x", "1", ";", "t", "a", "g", "=", "y", "\r", "\n">>
    /\ out.kind = "Ok"
    /\ out.rest = CRLF
    /\ out.val = (<<"t", "a", "g">> :> <<"y">>)

\* the headers of the variant in a built request, in order
HeadersOf(variant, msg) ==
    Bind({k \in DOMAIN msg.headers : msg.headers[k].variant = variant}, LAMBDA at :
        {msg.headers[k].payload : k \in at})

\* requests 1..Len(sent) were all built, the k-th with CSeq(k, MESSAGE), and all carry
\* the Call-ID of the writer
CSeqCountsCalls ==
    /\ writer # NoWriter => writer.cseq = U32(Len(sent))
    /\ \A k \in DOMAIN sent :
          /\ sent[k].ok
          /\ sent[k].val.method = "Message"
          /\ Cardinality({j \in DOMAIN sent[k].val.headers :
                             sent[k].val.headers[j].variant = "CSeq"}) = 1
          /\ HeadersOf("CSeq", sent[k].val) = {[seq |-> U32(k), method |-> "Message"]}
          /\ HeadersOf("CallId", sent[k].val) = {writer.call_id}
    /\ \A j, k \in DOMAIN sent :
          /\ j < k => HeadersOf("CSeq", sent[j].val) # HeadersOf("CSeq", sent[k].val)
          /\ HeadersOf("CallId", sent[j].val) = HeadersOf("CallId", sent[k].val)

\* C11 as claimed: the k-th write_message of a writer builds a request whose CSeq header
\* is CSeq(k, MESSAGE) (counter from 0, incremented by one before the request is built,
\* so never repeated), whose Call-ID is the same in every request of the writer, and
\* whose Content-Length equals the length of the body.
C11_CSeqCountsCalls ==
    /\ CSeqCountsCalls
    /\ \A k \in DOMAIN sent :
          HeadersOf("ContentLength", sent[k].val) = {sent[k].val.body.len}

\* C11 as amended: the same, with Content-Length the low 32 bits of the body length,
\* which is the body length for a body shorter than 2^32 bytes.
C11_CSeqCountsCallsLow32 ==
    /\ CSeqCountsCalls
    /\ \A k \in DOMAIN sent :
          Bind(sent[k].val.body.len, LAMBDA n :
              /\ HeadersOf("ContentLength", sent[k].val) = {as_u32(n)}
              /\ n.hi < 65536 => HeadersOf("ContentLength", sent[k].val) = {n})

C11_Witness ==
    /\ Len(sent) = 3
    /\ HeadersOf("CSeq", sent[3].val) = {[seq |-> U32(3), method |-> "Message"]}
    /\ HeadersOf("CallId", sent[1].val) = HeadersOf("CallId", sent[3].val)
    /\ sent[2].val.body.len = [hi |-> 65536, lo |-> 5]
    /\ HeadersOf("ContentLength", sent[2].val) = {U32(5)}
    /\ HeadersOf("ContentLength", sent[3].val) = {[hi |-> 65535, lo |-> 65535]}

=============================================================================
